---- MODULE Spec2Model ----
(***************************************************************************)
(* A model of src/src/satnet_cpu.cpp: the mixing-method kernel of SATNet   *)
(* (mix_init, mix_kernel, mix_forward, mix_backward and the three batch    *)
(* launchers).                                                             *)
(*                                                                         *)
(* Floating point values are modelled by extended rationals <<n, d>>:      *)
(*   d > 0            the finite value n/d (in lowest terms)               *)
(*   <<1,0>>, <<-1,0>>  +infinity and -infinity                            *)
(*   <<0,0>>          NaN                                                  *)
(* with IEEE-754's rules for the special values.  Arithmetic on the finite *)
(* values is exact: rounding, overflow to infinity and the sign of zero    *)
(* are not modelled.                                                       *)
(***************************************************************************)
EXTENDS Integers, Sequences, FiniteSets, TLC

----------------------------------------------------------------------------
(* Extended rational arithmetic (the float operations of the source).      *)

Abs(x) == IF x < 0 THEN -x ELSE x

Sgn(x) == IF x > 0 THEN 1 ELSE IF x < 0 THEN -1 ELSE 0

RECURSIVE Gcd(_, _)
Gcd(a, b) == IF b = 0 THEN a ELSE Gcd(b, a % b)

\* The extended rational x/y in canonical form.
Norm(x, y) ==
  IF y = 0 THEN <<Sgn(x), 0>>
  ELSE LET g == Gcd(Abs(x), Abs(y))
           s == Sgn(y)
       IN  <<(s * x) \div g, (s * y) \div g>>

R(x) == <<x, 1>>
Zero == <<0, 1>>
One == <<1, 1>>
NaN == <<0, 0>>
PInf == <<1, 0>>
NInf == <<-1, 0>>

isnan(a) == a = NaN
isinf(a) == a = PInf \/ a = NInf
IsFinite(a) == a[2] # 0

\* a * b, cancelling common factors before multiplying.
Mul(a, b) ==
  IF a[2] = 0 \/ b[2] = 0 THEN Norm(a[1] * b[1], a[2] * b[2])
  ELSE LET g1 == Gcd(Abs(a[1]), b[2])
           g2 == Gcd(Abs(b[1]), a[2])
       IN  <<(a[1] \div g1) * (b[1] \div g2), (a[2] \div g2) * (b[2] \div g1)>>

Neg(a) == <<-a[1], a[2]>>

Add(a, b) ==
  IF a[2] = 0 /\ b[2] = 0 THEN (IF a = b THEN a ELSE NaN)
  ELSE IF a[2] = 0 THEN a
  ELSE IF b[2] = 0 THEN b
  ELSE LET g == Gcd(a[2], b[2])
       IN  Norm(a[1] * (b[2] \div g) + b[1] * (a[2] \div g), (a[2] \div g) * b[2])

Sub(a, b) == Add(a, Neg(b))

\* 1/b: 1/0 is +infinity (the sign of zero is not modelled), 1/infinity is 0.
Recip(b) == Norm(b[2], b[1])

Div(a, b) == Mul(a, Recip(b))

\* a < b as C compares floats: false whenever an operand is NaN.
Lt(a, b) ==
  IF isnan(a) \/ isnan(b) THEN FALSE
  ELSE IF a[2] = 0 \/ b[2] = 0
       THEN (a # b) /\ (a = NInf \/ b = PInf)
       ELSE LET g == Gcd(a[2], b[2])
            IN  a[1] * (b[2] \div g) < b[1] * (a[2] \div g)

\* copysign(x, y): the magnitude of x with the sign of y (y = 0 counts as +0).
copysign(x, y) ==
  IF isnan(x) THEN NaN
  ELSE IF y[1] < 0 THEN <<-Abs(x[1]), x[2]>> ELSE <<Abs(x[1]), x[2]>>

\* The integer square root of n >= 0.
ISqrt(n) == CHOOSE r \in 0..n : r * r <= n /\ (r + 1) * (r + 1) > n

IsSquare(n) == n >= 0 /\ ISqrt(n) * ISqrt(n) = n

\* sqrt has an exact value in the model when its argument is a special
\* value, negative, or the square of a rational.
HasSqrt(a) ==
  \/ a[2] = 0
  \/ a[1] < 0
  \/ IsSquare(a[1]) /\ IsSquare(a[2])

sqrt(a) ==
  IF isnan(a) \/ a[1] < 0 THEN NaN
  ELSE IF a = PInf THEN PInf
  ELSE <<ISqrt(a[1]), ISqrt(a[2])>>

----------------------------------------------------------------------------
(* Problem sizes.                                                          *)

\* The number of floats one SSE register holds: saxpy and sdot step by it.
SimdWidth == 4

\* k and m in units of SimdWidth (the vector primitives' length precondition).
KVec == 1
MVec == 2

\* n: the variables of one instance, variable 0 being the reference.
N == 3

K == SimdWidth * KVec
M == SimdWidth * MVec

\* The largest max_iter a caller passes in the model.
MaxIter == 3

\* b: the batch elements the launchers run.
Batch == 2

\* The finite values of the model: numerator and denominator up to MaxMag.
\* A step that would store a finite value outside this range is not followed.
MaxMag == 4000

Fits(x) == IF x[2] = 0 THEN TRUE ELSE Abs(x[1]) <= MaxMag /\ x[2] <= MaxMag

FitsAll(buf) == {j \in DOMAIN buf : ~Fits(buf[j])} = {}

\* M_PI.  The model computes with the rational 22/7 in its place, so that a
\* factor of pi and a factor of pi squared stay distinguishable.
M_PI == <<22, 7>>

\* x < MEPS, MEPS = 1e-24.  Every positive finite value of the model has a
\* denominator below 2^31, hence is above 1e-24.
BelowMEPS(x) ==
  IF isnan(x) THEN FALSE
  ELSE IF x[2] = 0 THEN x = NInf
  ELSE x[1] <= 0

\* A C truth value as a float operand.
B2R(b) == IF b THEN One ELSE Zero

\* The function f with all its values computed: TLC computes the value of a
\* function expression anew at every application unless it has been compared.
Force(f) == IF f = [j \in DOMAIN f |-> f[j]] THEN f ELSE f

\* The value e, computed after the value v it is computed from: TLC computes
\* an operator's argument where it is first used, so that the computations of
\* a chain of values would nest.
After(v, e) == IF v = v THEN e ELSE e

----------------------------------------------------------------------------
(* Vector primitives.  A buffer is a function on 0..len-1, as in C; every   *)
(* primitive takes the buffer and the offset its pointer argument has.     *)

\* The elements the SIMD loop "for (i = 0; i < l; i += 4)" touches.
Chunked(l) == SimdWidth * ((l + SimdWidth - 1) \div SimdWidth)

RECURSIVE Sum(_, _, _)
\* f[lo] + ... + f[hi].  The sums of the model are exact, so the order in
\* which the terms are added does not change the value.
Sum(f, lo, hi) ==
  IF lo > hi THEN Zero
  ELSE IF lo = hi THEN f[lo]
  ELSE LET mid == (lo + hi) \div 2
       IN  Add(Sum(f, lo, mid), Sum(f, mid + 1, hi))

\* _mm_dp_ps(x_, y_, 0xf1): the dot product of the four floats at x + xo
\* and y + yo.
Dot4(x, xo, y, yo) ==
  Add(Add(Mul(x[xo], y[yo]), Mul(x[xo + 1], y[yo + 1])),
      Add(Mul(x[xo + 2], y[yo + 2]), Mul(x[xo + 3], y[yo + 3])))

RECURSIVE DotFrom(_, _, _, _, _, _, _)
\* The loop of sdot from element i on, s being the sum so far.
DotFrom(x, xo, y, yo, l, i, s) ==
  IF i >= l THEN s
  ELSE LET s1 == Add(s, Dot4(x, xo + i, y, yo + i))
       IN  After(s1, DotFrom(x, xo, y, yo, l, i + SimdWidth, s1))

sdot(x, xo, y, yo, l) == DotFrom(x, xo, y, yo, l, 0, Zero)

saxpy(y, yo, a, x, xo, l) ==
  Force([j \in DOMAIN y |->
           IF j >= yo /\ j < yo + Chunked(l)
           THEN Add(Mul(a, x[xo + (j - yo)]), y[j])
           ELSE y[j]])

sscal(x, xo, a, l) ==
  Force([j \in DOMAIN x |-> IF j >= xo /\ j < xo + l THEN Mul(x[j], a) ELSE x[j]])

snrm2(x, xo, l) == sqrt(sdot(x, xo, x, xo, l))

szero(v, vo, l) ==
  [j \in DOMAIN v |-> IF j >= vo /\ j < vo + l THEN Zero ELSE v[j]]

saturate(x) ==
  Add(Sub(x, Mul(B2R(Lt(x, Zero)), x)), Mul(B2R(Lt(One, x)), Sub(One, x)))

----------------------------------------------------------------------------
(* The decoded value z.  The source uses z[i] only through cos(z*M_PI) and  *)
(* sin(z*M_PI), and produces it only as 1 - acosf(x)/M_PI; the model holds  *)
(* z[i] as the pair <<cos(pi z), sin(pi z)>>, which is exact for angles    *)
(* whose sine and cosine are rational.                                     *)

cospi(zi) == zi[1]
sinpi(zi) == zi[2]

\* z = saturate(1 - acosf(x)/M_PI) for x in [-1, 1]: cos(pi z) = -x and
\* sin(pi z) = sqrt(1 - x^2) >= 0.
DecodeAngle(x) == <<Neg(x), sqrt(Sub(One, Mul(x, x)))>>

----------------------------------------------------------------------------
(* One problem instance: the buffers of mix_t and the positions of         *)
(* mix_forward and mix_backward in their code.                             *)

VARIABLES
  perm, is_input, index, z, V, W, S, Snrms, gnrm, cache, niter,
  dz, dS, U, Phi,             \* the buffers of one instance
  max_iter, eps, prox_lam,    \* the scalar arguments
  pc,                         \* where the instance is in its calls
  iter, i_, delta,            \* locals of mix_forward / mix_backward / mix_kernel
  invalid_flag,               \* mix_backward's invalid_flag
  eps0, deltas,               \* history: eps as passed, the movement of each forward sweep
  fwdSweeps, bwdSweeps,       \* history: kernel calls made by forward and by backward
  visits,                     \* history: the ids the running sweep has updated, in order
  sweepOrders,                \* history: the visit order of every finished sweep
  dz_in, dS_in                \* history: dz and dS as mix_backward received them

inst_vars ==
  <<perm, is_input, index, z, V, W, S, Snrms, gnrm, cache, niter, dz, dS, U, Phi,
    max_iter, eps, prox_lam, pc, iter, i_, delta, invalid_flag, eps0, deltas,
    fwdSweeps, bwdSweeps, visits, sweepOrders, dz_in, dS_in>>

\* The batch the launchers run: element e has the slices at offset e * stride
\* of the buffers of mix_t.
VARIABLES
  b_pc,                       \* per element: where its call of the running launcher is
  b_iter,                     \* per element: the local iter of its call
  mem_is_input, mem_index,    \* mix.is_input and mix.index of the whole batch
  mem_niter,                  \* mix.niter of the whole batch
  rd, wr                      \* history: per element and buffer, the span read / written

batch_vars == <<b_pc, b_iter, mem_is_input, mem_index, mem_niter, rd, wr>>

Vars == 0..(N - 1)
Rows(i, len) == (i * len)..(i * len + len - 1)
Buf(len, v) == [j \in 0..(len - 1) |-> v]

----------------------------------------------------------------------------
(* mix_init                                                                *)

\* Lines 100-109 for variable i.
InitRow(isin, zb, Vb, i) ==
  IF isin[i] # 0
  THEN LET Vi1 == Vb[i * K + 1]
           V0 == szero(Vb, i * K, K)
           V1 == [V0 EXCEPT ![i * K] = Neg(cospi(zb[i]))]
       IN  [V1 EXCEPT ![i * K + 1] = copysign(sinpi(zb[i]), Vi1)]
  ELSE LET s == sdot(Vb, i * K, Vb, i * K, K)
       IN  sscal(Vb, i * K, Div(One, sqrt(s)), K)

\* The loop of lines 99-110: iteration i reads and writes row i of V alone.
InitRows(isin, zb, Vb) ==
  Force([j \in DOMAIN Vb |-> InitRow(isin, zb, Vb, j \div K)[j]])

RECURSIVE IndexFill_NoTest(_, _, _, _, _)
\* IndexFill without the test of line 115.
IndexFill_NoTest(pm, isin, idx, ii, j) ==
  IF ii >= N - 1 THEN [index |-> idx, j |-> j]
  ELSE IndexFill_NoTest(pm, isin, [idx EXCEPT ![j] = pm[ii] + 1], ii + 1, j + 1)

RECURSIVE IndexFill(_, _, _, _, _)
\* The loop of lines 113-117 from position i_ on, j entries being written.
IndexFill(pm, isin, idx, ii, j) ==
  IF ii >= N - 1 THEN [index |-> idx, j |-> j]
  ELSE LET i == pm[ii] + 1
       IN  IF isin[i] = 0
           THEN IndexFill(pm, isin, [idx EXCEPT ![j] = i], ii + 1, j + 1)
           ELSE IndexFill(pm, isin, idx, ii + 1, j)

\* BuildIndex with the walk of perm in reverse.
BuildIndex_Reversed(pm, isin, idx) ==
  LET r == IndexFill([j \in DOMAIN pm |-> pm[N - 2 - j]], isin, idx, 0, 0)
  IN  [j \in DOMAIN idx |-> IF j >= r.j /\ j < N THEN 0 ELSE r.index[j]]

\* Lines 112-119: the visitation order, padded with the sentinel 0.
BuildIndex(pm, isin, idx) ==
  LET r == IndexFill(pm, isin, idx, 0, 0)
  IN  [j \in DOMAIN idx |-> IF j >= r.j /\ j < N THEN 0 ELSE r.index[j]]

----------------------------------------------------------------------------
(* mix_kernel                                                              *)

\* RankOne with the row pointer S in place of Si = S + i*m.
RankOne_FirstRow(Wb, g, Sb, i) ==
  Force([j \in DOMAIN Wb |->
           IF j < K * M THEN Add(Mul(g[j \div M], Sb[j % M]), Wb[j]) ELSE Wb[j]])

\* Lines 169-170: the call saxpy(W + kk*m, g[kk], Si, m) of every kk.  The
\* calls write disjoint rows of W, so entry j is written by the call of
\* kk = j / m alone.
RankOne(Wb, g, Sb, i) ==
  Force([j \in DOMAIN Wb |->
           IF j < K * M THEN Add(Mul(g[j \div M], Sb[i * M + (j % M)]), Wb[j]) ELSE Wb[j]])

\* Lines 133-143: g = W Si - Sii Vi.
KernelG(i, Sb, Vb, Wb, Sn) ==
  LET g0 == Force([kk \in 0..(K - 1) |-> sdot(Sb, i * M, Wb, kk * M, M)])
  IN  After(g0, saxpy(g0, 0, Neg(Sn[i]), Vb, i * K, K))

\* KernelDir with sdot in place of snrm2 in forward mode.
KernelDir_SquaredNorm(is_forward, lam, i, dzb, Vproj, gn, g1) ==
  IF is_forward
  THEN [gnrmi |-> sdot(g1, 0, g1, 0, K), g |-> sscal(g1, 0, R(-1), K)]
  ELSE LET c == Add(sdot(Vproj, i * K, g1, 0, K), Mul(dzb[i], Vproj[i * K]))
           ga == sscal(g1, 0, R(-1), K)
           gb == saxpy(ga, 0, c, Vproj, i * K, K)
       IN  After(<<c, ga>>,
                 [gnrmi |-> Add(gn[i], lam), g |-> [gb EXCEPT ![0] = Sub(gb[0], dzb[i])]])

\* Lines 145-159: the norm and the direction before scaling.
KernelDir(is_forward, lam, i, dzb, Vproj, gn, g1) ==
  IF is_forward
  THEN [gnrmi |-> snrm2(g1, 0, K), g |-> sscal(g1, 0, R(-1), K)]
  ELSE LET c == Add(sdot(Vproj, i * K, g1, 0, K), Mul(dzb[i], Vproj[i * K]))
           ga == sscal(g1, 0, R(-1), K)
           gb == saxpy(ga, 0, c, Vproj, i * K, K)
       IN  After(<<c, ga>>,
                 [gnrmi |-> Add(gn[i], lam), g |-> [gb EXCEPT ![0] = Sub(gb[0], dzb[i])]])

\* Lines 133-177: the update of variable i.  V and W are the buffers the call
\* updates (U and Phi in adjoint mode).
KernelUpdate(is_forward, lam, i, Sb, dzb, Vb, Vproj, Wb, gn, Sn) ==
  LET g1 == KernelG(i, Sb, Vb, Wb, Sn)
      d == KernelDir(is_forward, lam, i, dzb, Vproj, gn, g1)
      g3 == sscal(d.g, 0, Div(One, d.gnrmi), K)
      g4 == Force([kk \in 0..(K - 1) |-> Sub(g3[kk], Vb[i * K + kk])])
  IN  After(g1,
        [exact |-> (~is_forward) \/ HasSqrt(sdot(g1, 0, g1, 0, K)),
         gnrmi |-> d.gnrmi,
         V |-> Force([j \in DOMAIN Vb |-> IF j \in Rows(i, K) THEN g3[j - i * K] ELSE Vb[j]]),
         g |-> g4,
         W |-> RankOne(Wb, g4, Sb, i),
         movement |-> Mul(d.gnrmi, sdot(g4, 0, g4, 0, K))])

----------------------------------------------------------------------------
(* mix_forward and mix_backward: the parts between kernel calls.           *)

RECURSIVE VisitFrom(_, _)
\* The ids a loop "for (i_ = 0; (i = index[i_]); i_++)" visits from i_ = ii.
VisitFrom(idx, ii) ==
  IF ii \notin DOMAIN idx \/ idx[ii] = 0 THEN <<>>
  ELSE <<idx[ii]>> \o VisitFrom(idx, ii + 1)

Visited(idx) == VisitFrom(idx, 0)

Range(sq) == {sq[j] : j \in DOMAIN sq}

\* Lines 206-211: z[i] of every visited variable from the row's first entry.
Decode(zb, Vb, idx) ==
  [i \in DOMAIN zb |->
     IF i \in Range(Visited(idx))
     THEN LET x == Sub(Mul(saturate(Div(Add(Vb[i * K], One), R(2))), R(2)), One)
          IN  DecodeAngle(x)
     ELSE zb[i]]

DecodeExact(Vb, idx) ==
  {i \in Range(Visited(idx)) :
     LET x == Sub(Mul(saturate(Div(Add(Vb[i * K], One), R(2))), R(2)), One)
     IN  ~HasSqrt(Sub(One, Mul(x, x)))} = {}

\* Line 223: dz[i] / M_PI / sin(z[i] * M_PI).
RescaledDz(dzb, zb, i) == Div(Div(dzb[i], M_PI), sinpi(zb[i]))

\* Lines 221-227: the rescaled dz of the visited variables.
Step1Dz(dzb, zb, idx) ==
  [i \in DOMAIN dzb |->
     IF i \in Range(Visited(idx)) THEN RescaledDz(dzb, zb, i) ELSE dzb[i]]

\* Lines 224-225: invalid_flag after the loop of step 1.
Step1Invalid(dzb, zb, gn, idx) ==
  \E i \in Range(Visited(idx)) :
     \/ isnan(RescaledDz(dzb, zb, i))
     \/ isinf(RescaledDz(dzb, zb, i))
     \/ BelowMEPS(gn[i])

\* Lines 239-242: some entry of U is NaN or infinite.
Step3Invalid(Ub) == \E ik \in 0..(N * K - 1) : isnan(Ub[ik]) \/ isinf(Ub[ik])

\* Lines 228-231 and 243-246: what the invalid branch leaves in dz.
InvalidDz(dzb) == szero(dzb, 0, N)

\* Lines 250-255 for the entry j of dS: the two saxpy calls of every kk add
\* U_ikk W_kk and V_ikk Phi_kk to it.
Step4Entry(dSb, Ub, Wb, Vb, Phib, j) ==
  LET i == j \div M
      c == j % M
      t == [kk \in 0..(K - 1) |->
             Add(Mul(Ub[i * K + kk], Wb[kk * M + c]), Mul(Vb[i * K + kk], Phib[kk * M + c]))]
  IN  Add(dSb[j], Sum(t, 0, K - 1))

Step4(dSb, Ub, Wb, Vb, Phib) ==
  Force([j \in DOMAIN dSb |-> Step4Entry(dSb, Ub, Wb, Vb, Phib, j)])

\* Lines 262-265: the gradient of input variable i.
Step5Value(dzb, zb, Sb, Phib, Vb, i) ==
  LET val1 == sdot(Sb, i * M, Phib, 0 * M, M)
      val2 == sdot(Sb, i * M, Phib, 1 * M, M)
  IN  Add(Mul(Mul(Add(dzb[i], val1), sinpi(zb[i])), M_PI),
          Mul(Mul(val2, copysign(Mul(cospi(zb[i]), M_PI), Vb[i * K + 1])), M_PI))

\* The variables the loop of line 257 runs over.
Step5Vars == 1..(N - 1)

\* Step5 without the branch of lines 258-261.
Step5_NoSkip(dzb, zb, Sb, Phib, Vb, isin) ==
  [i \in DOMAIN dzb |->
     IF i \notin Step5Vars THEN dzb[i] ELSE Step5Value(dzb, zb, Sb, Phib, Vb, i)]

\* Lines 257-266.
Step5(dzb, zb, Sb, Phib, Vb, isin) ==
  [i \in DOMAIN dzb |->
     IF i \notin Step5Vars THEN dzb[i]
     ELSE IF isin[i] = 0 THEN Zero
     ELSE Step5Value(dzb, zb, Sb, Phib, Vb, i)]

----------------------------------------------------------------------------
(* Control: the code positions, loop counters and histories.  Each         *)
(* operator below is the effect of a piece of code on these; the actions   *)
(* of the specifications join it with the effect on the buffers.           *)

ctl_const == <<perm, is_input, max_iter, eps0, batch_vars>>

\* mix_init, lines 112-119.
InitCtl ==
  /\ pc = "init"
  /\ index' = BuildIndex(perm, is_input, index)
  /\ pc' = "host_w"
  /\ UNCHANGED <<ctl_const, niter, eps, iter, i_, delta, invalid_flag, deltas,
                 fwdSweeps, bwdSweeps, visits, sweepOrders>>

\* The host has derived W; mix_forward is entered (line 190).
EnterForwardCtl ==
  /\ pc = "host_w"
  /\ pc' = "fwd_loop"
  /\ iter' = 0
  /\ UNCHANGED <<ctl_const, index, niter, eps, i_, delta, invalid_flag, deltas,
                 fwdSweeps, bwdSweeps, visits, sweepOrders>>

\* Line 192, the loop test, then line 194 (the call) or line 201.
ForwardLoopCtl ==
  /\ pc = "fwd_loop"
  /\ IF iter < max_iter
     THEN /\ pc' = "fwd_kernel"
          /\ i_' = 0
          /\ delta' = Zero
          /\ visits' = <<>>
          /\ fwdSweeps' = fwdSweeps + 1
          /\ UNCHANGED niter
     ELSE /\ pc' = "decode"
          /\ niter' = iter
          /\ UNCHANGED <<i_, delta, visits, fwdSweeps>>
  /\ UNCHANGED <<ctl_const, index, eps, iter, invalid_flag, deltas, bwdSweeps,
                 sweepOrders>>

\* Line 132, the loop test of mix_kernel: position i_ holds a variable.
KernelStepEnabled(is_forward) ==
  /\ pc = (IF is_forward THEN "fwd_kernel" ELSE "bwd_kernel")
  /\ i_ \in DOMAIN index
  /\ index[i_] # 0

\* Line 132: the loop of mix_kernel takes the variable at position i_.
KernelStepCtl(is_forward) ==
  /\ KernelStepEnabled(is_forward)
  /\ i_' = i_ + 1
  /\ visits' = Append(visits, index[i_])
  /\ UNCHANGED <<ctl_const, index, niter, eps, iter, pc, invalid_flag, deltas,
                 fwdSweeps, bwdSweeps, sweepOrders>>

\* ForwardReturnCtl with "if (delta < eps) break;" in place of line 195.
ForwardReturnCtl_NoFirstSweepGuard ==
  /\ pc = "fwd_kernel"
  /\ i_ \in DOMAIN index
  /\ index[i_] = 0
  /\ deltas' = Append(deltas, delta)
  /\ sweepOrders' = sweepOrders \cup {visits}
  /\ IF Lt(delta, eps)
     THEN /\ pc' = "decode"
          /\ niter' = iter
          /\ UNCHANGED <<eps, iter>>
     ELSE /\ eps' = (IF iter = 0 THEN Mul(delta, eps) ELSE eps)
          /\ iter' = iter + 1
          /\ pc' = "fwd_loop"
          /\ UNCHANGED niter
  /\ UNCHANGED <<ctl_const, index, i_, delta, invalid_flag, fwdSweeps, bwdSweeps,
                 visits>>

\* Lines 195-198 after the kernel returned its delta, and the iter++ of line 192.
ForwardReturnCtl ==
  /\ pc = "fwd_kernel"
  /\ i_ \in DOMAIN index
  /\ index[i_] = 0
  /\ deltas' = Append(deltas, delta)
  /\ sweepOrders' = sweepOrders \cup {visits}
  /\ IF iter # 0 /\ Lt(delta, eps)
     THEN /\ pc' = "decode"
          /\ niter' = iter
          /\ UNCHANGED <<eps, iter>>
     ELSE /\ eps' = (IF iter = 0 THEN Mul(delta, eps) ELSE eps)
          /\ iter' = iter + 1
          /\ pc' = "fwd_loop"
          /\ UNCHANGED niter
  /\ UNCHANGED <<ctl_const, index, i_, delta, invalid_flag, fwdSweeps, bwdSweeps,
                 visits>>

\* Lines 206-211.
DecodeCtl ==
  /\ pc = "decode"
  /\ pc' = "host_grad"
  /\ UNCHANGED <<ctl_const, index, niter, eps, iter, i_, delta, invalid_flag,
                 deltas, fwdSweeps, bwdSweeps, visits, sweepOrders>>

\* The host has set the incoming gradient; mix_backward is entered.
EnterBackwardCtl ==
  /\ pc = "host_grad"
  /\ pc' = "bwd_step1"
  /\ UNCHANGED <<ctl_const, index, niter, eps, iter, i_, delta, invalid_flag,
                 deltas, fwdSweeps, bwdSweeps, visits, sweepOrders>>

\* Lines 220-231, invalid_flag having the value flag after the loop.
Step1Ctl(flag) ==
  /\ pc = "bwd_step1"
  /\ invalid_flag' = flag
  /\ pc' = (IF flag THEN "done" ELSE "bwd_loop")
  /\ iter' = 0
  /\ UNCHANGED <<ctl_const, index, niter, eps, i_, delta, deltas, fwdSweeps,
                 bwdSweeps, visits, sweepOrders>>

\* Line 234, the loop test, then the call of line 235.
BackwardLoopCtl ==
  /\ pc = "bwd_loop"
  /\ IF iter < niter
     THEN /\ pc' = "bwd_kernel"
          /\ i_' = 0
          /\ visits' = <<>>
          /\ bwdSweeps' = bwdSweeps + 1
     ELSE /\ pc' = "bwd_check"
          /\ UNCHANGED <<i_, visits, bwdSweeps>>
  /\ UNCHANGED <<ctl_const, index, niter, eps, iter, delta, invalid_flag, deltas,
                 fwdSweeps, sweepOrders>>

\* The adjoint kernel call returns (its delta is dropped); iter++ of line 234.
BackwardReturnCtl ==
  /\ pc = "bwd_kernel"
  /\ i_ \in DOMAIN index
  /\ index[i_] = 0
  /\ sweepOrders' = sweepOrders \cup {visits}
  /\ iter' = iter + 1
  /\ pc' = "bwd_loop"
  /\ UNCHANGED <<ctl_const, index, niter, eps, i_, delta, invalid_flag, deltas,
                 fwdSweeps, bwdSweeps, visits>>

\* Lines 239-266, invalid_flag having the value flag after the sanity check.
FinishCtl(flag) ==
  /\ pc = "bwd_check"
  /\ invalid_flag' = flag
  /\ pc' = "done"
  /\ UNCHANGED <<ctl_const, index, niter, eps, iter, i_, delta, deltas, fwdSweeps,
                 bwdSweeps, visits, sweepOrders>>

----------------------------------------------------------------------------
(* The inputs of the model.                                                *)

\* Every permutation of 0..n-2, as the function perm[0..n-2].
Perms ==
  {f \in [0..(N - 2) -> 0..(N - 2)] : \A a, b \in 0..(N - 2) : f[a] = f[b] => a = b}

IsInputs == [Vars -> {0, 1}]

AtSeed(sq, sd, i) == sq[((sd + i) % Len(sq)) + 1]

\* Decoded values z in [0, 1] with rational sine and cosine: 1, ~0.8, 1/2, ~0.2, 0.
Angles ==
  << <<R(-1), Zero>>, <<Norm(-4, 5), Norm(3, 5)>>, <<Zero, One>>,
     <<Norm(4, 5), Norm(3, 5)>>, <<One, Zero>> >>

\* Seeds of the rows of V: non-zero vectors of rational length.
RowSeeds == << <<1, 0>>, <<3, -4>>, <<0, -2>>, <<-4, 3>> >>

\* Rows of the weight matrix S; the last one is a variable no clause mentions.
SRows == << <<1, 0>>, <<1, 1>>, <<0, 2>>, <<1, 0>>, <<0, 1>>, <<0, 2>>, <<0, 0>> >>

\* A row of len entries that starts with the pair p and is 0 after it.
Padded(p, j) == IF j < 2 THEN R(p[j + 1]) ELSE Zero

SeededV(sd) == [j \in 0..(N * K - 1) |-> Padded(AtSeed(RowSeeds, sd, j \div K), j % K)]
SeededS(sd) == [j \in 0..(N * M - 1) |-> Padded(AtSeed(SRows, sd, j \div M), j % M)]
SeededZ(sd) == [i \in Vars |-> AtSeed(Angles, sd, i)]

\* The squared row norms of S, as the host precomputes them.
RowNorms(Sb) == [i \in Vars |-> sdot(Sb, i * M, Sb, i * M, M)]

\* W = sum_i V_i (outer) S_i, the k x m accumulator the host derives from V.
VtS(Vb, Sb) ==
  [j \in 0..(K * M - 1) |->
     Sum([i \in Vars |-> Mul(Vb[i * K + (j \div M)], Sb[i * M + (j % M)])], 0, N - 1)]

\* The permutations and input flags the exact-value specification starts from.
SomePerms == {[j \in 0..(N - 2) |-> j], [j \in 0..(N - 2) |-> N - 2 - j]}

SomeIsInputs ==
  {[i \in Vars |-> IF i \in T THEN 1 ELSE 0] :
     T \in {{}, {0}, {1}, {0, 1}, {0, N - 1}, Vars}}

\* The seeds of V, S and z, chosen together.
Seeds ==
  {[v |-> 0, s |-> 0, z |-> 0], [v |-> 1, s |-> 3, z |-> 2],
   [v |-> 0, s |-> 3, z |-> 0], [v |-> 1, s |-> 0, z |-> 2],
   [v |-> 1, s |-> 4, z |-> 2]}

EpsChoices == {Norm(1, 2)}

\* The incoming gradient on z: dz[i] = -2 (i + 1).
HostDz == [i \in Vars |-> R(-2 * (i + 1))]

\* What the host passes to backward: the fill of dS, and prox_lam.
HostChoices ==
  {[dS |-> Zero, lam |-> Zero], [dS |-> One, lam |-> Zero], [dS |-> One, lam |-> R(-2)]}

Elems == 0..(Batch - 1)

\* The buffers of mix_t, perm, and what a NULL argument points to.
BufNames ==
  {"perm", "is_input", "index", "z", "V", "W", "gnrm", "niter", "S", "Snrms",
   "dz", "dS", "U", "Phi", "cache", "NULL"}

\* A span <<lo, hi>> of locations of one buffer; the empty span.
NoSpan == <<0, -1>>
NoAccess == [b \in BufNames |-> NoSpan]

\* The launchers are not run: the model follows one instance.
BatchUnused ==
  /\ b_pc = [e \in Elems |-> "unused"]
  /\ b_iter = [e \in Elems |-> 0]
  /\ mem_is_input = <<>>
  /\ mem_index = <<>>
  /\ mem_niter = <<>>
  /\ rd = [e \in Elems |-> NoAccess]
  /\ wr = [e \in Elems |-> NoAccess]

Init ==
  /\ BatchUnused
  /\ perm \in SomePerms
  /\ is_input \in SomeIsInputs
  /\ index = Buf(N, N)
  /\ \E sd \in Seeds :
        /\ z = SeededZ(sd.z)
        /\ V = SeededV(sd.v)
        /\ S = SeededS(sd.s)
  /\ Snrms \in {RowNorms(S), Buf(N, One)}
  /\ W = Buf(K * M, Zero)
  /\ gnrm = Buf(N, Zero)
  /\ cache = Buf(K, Zero)
  /\ niter = 0
  /\ dz = Buf(N, Zero)
  /\ dS = Buf(N * M, Zero)
  /\ U = Buf(N * K, Zero)
  /\ Phi = Buf(K * M, Zero)
  /\ max_iter \in 0..MaxIter
  /\ eps \in EpsChoices
  /\ prox_lam = Zero
  /\ pc = "init"
  /\ iter = 0
  /\ i_ = 0
  /\ delta = Zero
  /\ invalid_flag = FALSE
  /\ eps0 = eps
  /\ deltas = <<>>
  /\ fwdSweeps = 0
  /\ bwdSweeps = 0
  /\ visits = <<>>
  /\ sweepOrders = {}
  /\ dz_in = dz
  /\ dS_in = dS

----------------------------------------------------------------------------
(* The actions of one instance, with exact values.                         *)

grad_bufs == <<dz, dS, U, Phi, dz_in, dS_in, prox_lam>>
fixed_bufs == <<S, Snrms>>

MixInit ==
  /\ pc = "init"
  /\ V' = InitRows(is_input, z, V)
  /\ InitCtl
  /\ UNCHANGED <<z, W, gnrm, cache, grad_bufs, fixed_bufs>>

\* The host derives the accumulator from the initialised V and calls forward.
HostDeriveW ==
  /\ pc = "host_w"
  /\ W' = VtS(V, S)
  /\ EnterForwardCtl
  /\ UNCHANGED <<z, V, gnrm, cache, grad_bufs, fixed_bufs>>

ForwardLoop ==
  /\ ForwardLoopCtl
  /\ UNCHANGED <<z, V, W, gnrm, cache, grad_bufs, fixed_bufs>>

ForwardKernelStep ==
  /\ KernelStepEnabled(TRUE)
  /\ \E r \in {KernelUpdate(TRUE, Zero, index[i_], S, dz, V, V, W, gnrm, Snrms)} :
        /\ r.exact
        /\ FitsAll(r.V) /\ FitsAll(r.W) /\ Fits(r.gnrmi) /\ Fits(r.movement)
        /\ V' = r.V
        /\ W' = r.W
        /\ cache' = r.g
        /\ gnrm' = [gnrm EXCEPT ![index[i_]] = r.gnrmi]
        /\ delta' = Add(delta, r.movement)
  /\ KernelStepCtl(TRUE)
  /\ UNCHANGED <<z, grad_bufs, fixed_bufs>>

ForwardReturn ==
  /\ ForwardReturnCtl
  /\ UNCHANGED <<z, V, W, gnrm, cache, grad_bufs, fixed_bufs>>

ForwardDecode ==
  /\ pc = "decode"
  /\ DecodeExact(V, index)
  /\ z' = Decode(z, V, index)
  /\ DecodeCtl
  /\ UNCHANGED <<V, W, gnrm, cache, grad_bufs, fixed_bufs>>

\* The host passes the gradient on z, its dS, U and Phi buffers and prox_lam.
HostGradient ==
  /\ EnterBackwardCtl
  /\ dz' = HostDz
  /\ \E h \in HostChoices :
        /\ dS' = Buf(N * M, h.dS)
        /\ prox_lam' = h.lam
  /\ U' = Buf(N * K, Zero)
  /\ Phi' = Buf(K * M, Zero)
  /\ dz_in' = dz'
  /\ dS_in' = dS'
  /\ UNCHANGED <<z, V, W, gnrm, cache, fixed_bufs>>

BackwardStep1 ==
  /\ pc = "bwd_step1"
  /\ dz' = (IF Step1Invalid(dz, z, gnrm, index)
            THEN InvalidDz(Step1Dz(dz, z, index))
            ELSE Step1Dz(dz, z, index))
  /\ Step1Ctl(Step1Invalid(dz, z, gnrm, index))
  /\ UNCHANGED <<z, V, W, gnrm, cache, dS, U, Phi, dz_in, dS_in, prox_lam, fixed_bufs>>

BackwardLoop ==
  /\ BackwardLoopCtl
  /\ UNCHANGED <<z, V, W, gnrm, cache, grad_bufs, fixed_bufs>>

BackwardKernelStep ==
  /\ KernelStepEnabled(FALSE)
  /\ \E r \in {KernelUpdate(FALSE, prox_lam, index[i_], S, dz, U, V, Phi, gnrm, Snrms)} :
        /\ FitsAll(r.V) /\ FitsAll(r.W)
        /\ U' = r.V
        /\ Phi' = r.W
        /\ cache' = r.g
  /\ KernelStepCtl(FALSE)
  /\ UNCHANGED <<delta, z, V, W, gnrm, dz, dS, dz_in, dS_in, prox_lam, fixed_bufs>>

BackwardReturn ==
  /\ BackwardReturnCtl
  /\ UNCHANGED <<z, V, W, gnrm, cache, grad_bufs, fixed_bufs>>

BackwardFinish ==
  /\ pc = "bwd_check"
  /\ IF Step3Invalid(U)
     THEN /\ dz' = InvalidDz(dz)
          /\ dS' = dS
     ELSE /\ dS' = Step4(dS, U, W, V, Phi)
          /\ dz' = Step5(dz, z, S, Phi, V, is_input)
  /\ FitsAll(dS') /\ FitsAll(dz')
  /\ FinishCtl(Step3Invalid(U))
  /\ UNCHANGED <<z, V, W, gnrm, cache, U, Phi, dz_in, dS_in, prox_lam, fixed_bufs>>

vars == <<inst_vars, batch_vars>>

Next ==
  \/ MixInit
  \/ HostDeriveW
  \/ ForwardLoop
  \/ ForwardKernelStep
  \/ ForwardReturn
  \/ ForwardDecode
  \/ HostGradient
  \/ BackwardStep1
  \/ BackwardLoop
  \/ BackwardKernelStep
  \/ BackwardReturn
  \/ BackwardFinish

Spec == Init /\ [][Next]_vars

----------------------------------------------------------------------------
(* Properties of one instance with exact values (specification Spec).      *)

RowNorm2(Vb, i) == sdot(Vb, i * K, Vb, i * K, K)
Row(buf, i, len) == [c \in 0..(len - 1) |-> buf[i * len + c]]
AllFinite(buf) == {j \in DOMAIN buf : ~IsFinite(buf[j])} = {}
FreeIds == Range(Visited(index))
BackwardReturned == pc = "done"
ForwardPcs == {"fwd_loop", "fwd_kernel", "decode"}
BackwardPcs == {"bwd_step1", "bwd_loop", "bwd_kernel", "bwd_check"}

\* C1: whenever mix_backward has flagged the instance invalid (in step 1 or
\* in step 3), on return every entry of dz and every entry of dS is zero,
\* whatever the buffers held at entry.
C1_InvalidReturnZeroesDzAndDS ==
  (BackwardReturned /\ invalid_flag) =>
     (dz = Buf(N, Zero) /\ dS = Buf(N * M, Zero))

\* C5 as the code has it: after a mix_backward call that is not flagged
\* invalid, dz[i] = 0 for every non-input variable i in 1..n-1, and dz[0] is
\* the value the caller passed in.
C5_NonInputGradientZeroFromOne ==
  (BackwardReturned /\ ~invalid_flag) =>
     /\ \A i \in 1..(N - 1) : is_input[i] = 0 => dz[i] = Zero
     /\ dz[0] = dz_in[0]

\* A valid backward call has returned on an instance whose variable 0 and
\* some later variable are not inputs, with non-zero incoming gradients.
C5_Witness ==
  /\ BackwardReturned /\ ~invalid_flag
  /\ is_input[0] = 0 /\ dz_in[0] # Zero
  /\ \E i \in 1..(N - 1) : is_input[i] = 0 /\ dz_in[i] # Zero

\* C5 as stated: after a mix_backward call that is not flagged invalid,
\* dz[i] = 0 for every non-input variable i in 0..n-1, variable 0 included.
C5_NonInputGradientZero ==
  (BackwardReturned /\ ~invalid_flag) =>
     \A i \in Vars : is_input[i] = 0 => dz[i] = Zero

\* C6 as the code has it: after mix_init every row of V has norm 1 (input
\* rows, and free rows with a non-zero seed); the row of an input variable
\* keeps norm 1; and a row that a forward-mode kernel call updated has norm 1
\* when the norm gnrm[i] it was divided by is finite and not zero.
C6_UnitRowsInitAndForward ==
  /\ pc = "host_w" => \A i \in Vars : RowNorm2(V, i) = One
  /\ pc # "init" => \A i \in Vars : is_input[i] # 0 => RowNorm2(V, i) = One
  /\ \A i \in Vars : (IsFinite(gnrm[i]) /\ gnrm[i] # Zero) => RowNorm2(V, i) = One

\* A forward sweep has updated a free row with a finite non-zero norm on an
\* instance that has an input variable too.
C6_Witness ==
  /\ pc = "fwd_kernel" /\ i_ >= 1
  /\ \E i \in FreeIds : IsFinite(gnrm[i]) /\ gnrm[i] # Zero
  /\ \E i \in Vars : is_input[i] # 0

\* C6 as stated: the rows have norm 1 after mix_init, and after any kernel
\* call, in forward mode (rows of V) and in adjoint mode (rows of U), every
\* row the call updated has norm 1.
C6_UnitRowsAllModes ==
  /\ pc = "host_w" => \A i \in Vars : RowNorm2(V, i) = One
  /\ pc = "fwd_kernel" => \A j \in DOMAIN visits : RowNorm2(V, visits[j]) = One
  /\ pc = "bwd_kernel" => \A j \in DOMAIN visits : RowNorm2(U, visits[j]) = One

\* C7: if W = sum_i V_i (x) S_i holds when mix_kernel is entered, it holds
\* after every single-variable update and when the sweep returns, in forward
\* mode for (V, W) and in adjoint mode for (U, Phi), whatever Snrms holds
\* (exact arithmetic: stated of the finite values).
C7_AccumulatorTracksRows ==
  /\ (pc \notin {"init", "host_w"} /\ AllFinite(V) /\ AllFinite(W)) => W = VtS(V, S)
  /\ (AllFinite(U) /\ AllFinite(Phi)) => Phi = VtS(U, S)

\* An adjoint sweep is past its first update with finite non-zero U, after a
\* forward pass that updated V, on an instance whose Snrms are not the row
\* norms of S.
C7_Witness ==
  /\ pc = "bwd_kernel" /\ i_ >= 1
  /\ AllFinite(U) /\ AllFinite(Phi) /\ U # Buf(N * K, Zero)
  /\ AllFinite(V) /\ AllFinite(W) /\ fwdSweeps >= 1
  /\ Snrms # RowNorms(S)

\* The value the specification gives dz[i] of an input variable i:
\* (dz_i + S_i.Phi_0) sin(pi z_i) pi + (S_i.Phi_1) sign(V_i1) cos(pi z_i) pi^2.
C9_StatedValue(i) ==
  LET val1 == sdot(S, i * M, Phi, 0 * M, M)
      val2 == sdot(S, i * M, Phi, 1 * M, M)
      sign == copysign(One, V[i * K + 1])
  IN  Add(Mul(Mul(Add(dz_in[i], val1), sinpi(z[i])), M_PI),
          Mul(Mul(Mul(val2, sign), cospi(z[i])), Mul(M_PI, M_PI)))

\* C9: in a mix_backward call that is not flagged invalid, the value written
\* to dz[i] of every input variable i >= 1 is the stated one, the second
\* term carrying the sign of sign(V_i1) cos(pi z_i) also when the cosine is
\* negative.
C9_InputGradientFormula ==
  (BackwardReturned /\ ~invalid_flag) =>
     \A i \in 1..(N - 1) : is_input[i] # 0 => dz[i] = C9_StatedValue(i)

\* What a step of a call may change once mix_init has returned.
FrameStep ==
  pc # "init" =>
    /\ \A i \in Vars : (i = 0 \/ is_input[i] # 0) => Row(V', i, K) = Row(V, i, K)
    /\ pc \in ForwardPcs =>
         \A i \in Vars \ FreeIds :
            Row(V', i, K) = Row(V, i, K) /\ gnrm'[i] = gnrm[i] /\ z'[i] = z[i]
    /\ pc \in BackwardPcs =>
         /\ V' = V /\ W' = W /\ z' = z /\ gnrm' = gnrm /\ S' = S
         /\ \A i \in Vars \ FreeIds : Row(U', i, K) = Row(U, i, K)

\* C10: once mix_init has returned no step of mix_forward or mix_backward
\* changes row 0 of V or the row of an input variable; mix_forward changes
\* rows of V, entries of gnrm and entries of z only for the ids the index
\* lists before the sentinel; mix_backward changes no entry of V, W, z, gnrm
\* or S, and rows of U only for those ids.
C10_WritesOnlyIndexedRows == [][FrameStep]_vars

\* Both calls have run on an instance with an input and a free variable
\* after variable 0: forward updated V and backward updated U.
C10_Witness ==
  /\ BackwardReturned /\ ~invalid_flag
  /\ fwdSweeps >= 1 /\ bwdSweeps >= 1
  /\ FreeIds # {}
  /\ \E i \in 1..(N - 1) : is_input[i] # 0
  /\ U # Buf(N * K, Zero)

----------------------------------------------------------------------------
(* The control of one instance for every permutation, every is_input array *)
(* and every sequence of movements (specification SpecCtl).  The buffers   *)
(* of floats are left out: a kernel update contributes a movement drawn    *)
(* from Movements, and the two validity tests of mix_backward may go       *)
(* either way.                                                             *)

\* What one update of mix_kernel may add to delta (line 176): nothing, a
\* positive amount, or NaN (a zero gradient gives gnrmi = 0 and a NaN row).
Movements == {Zero, One, NaN}

float_bufs == <<z, V, W, gnrm, cache, grad_bufs, fixed_bufs>>

ControlInit ==
  /\ BatchUnused
  /\ perm \in Perms
  /\ is_input \in IsInputs
  /\ index = Buf(N, N)
  /\ z = Buf(N, Zero)
  /\ V = Buf(N * K, Zero)
  /\ S = Buf(N * M, Zero)
  /\ Snrms = Buf(N, Zero)
  /\ W = Buf(K * M, Zero)
  /\ gnrm = Buf(N, Zero)
  /\ cache = Buf(K, Zero)
  /\ niter = 0
  /\ dz = Buf(N, Zero)
  /\ dS = Buf(N * M, Zero)
  /\ U = Buf(N * K, Zero)
  /\ Phi = Buf(K * M, Zero)
  /\ max_iter \in 0..MaxIter
  /\ eps \in EpsChoices
  /\ prox_lam = Zero
  /\ pc = "init"
  /\ iter = 0
  /\ i_ = 0
  /\ delta = Zero
  /\ invalid_flag = FALSE
  /\ eps0 = eps
  /\ deltas = <<>>
  /\ fwdSweeps = 0
  /\ bwdSweeps = 0
  /\ visits = <<>>
  /\ sweepOrders = {}
  /\ dz_in = dz
  /\ dS_in = dS

ControlMixInit == InitCtl /\ UNCHANGED float_bufs

ControlEnterForward == EnterForwardCtl /\ UNCHANGED float_bufs

ControlForwardLoop == ForwardLoopCtl /\ UNCHANGED float_bufs

ControlForwardKernelStep ==
  /\ KernelStepCtl(TRUE)
  /\ \E d \in Movements : delta' = Add(delta, d)
  /\ UNCHANGED float_bufs

ControlForwardReturn == ForwardReturnCtl /\ UNCHANGED float_bufs

ControlDecode == DecodeCtl /\ UNCHANGED float_bufs

ControlEnterBackward == EnterBackwardCtl /\ UNCHANGED float_bufs

\* The test of lines 224-225 runs once for every visited variable.
ControlStep1 ==
  /\ \E flag \in (IF Visited(index) = <<>> THEN {FALSE} ELSE BOOLEAN) : Step1Ctl(flag)
  /\ UNCHANGED float_bufs

ControlBackwardLoop == BackwardLoopCtl /\ UNCHANGED float_bufs

ControlBackwardKernelStep == KernelStepCtl(FALSE) /\ UNCHANGED <<delta, float_bufs>>

ControlBackwardReturn == BackwardReturnCtl /\ UNCHANGED float_bufs

ControlFinish ==
  /\ \E flag \in BOOLEAN : FinishCtl(flag)
  /\ UNCHANGED float_bufs

NextCtl ==
  \/ ControlMixInit
  \/ ControlEnterForward
  \/ ControlForwardLoop
  \/ ControlForwardKernelStep
  \/ ControlForwardReturn
  \/ ControlDecode
  \/ ControlEnterBackward
  \/ ControlStep1
  \/ ControlBackwardLoop
  \/ ControlBackwardKernelStep
  \/ ControlBackwardReturn
  \/ ControlFinish

SpecCtl == ControlInit /\ [][NextCtl]_vars

----------------------------------------------------------------------------
(* Properties of the control (specification SpecCtl).                      *)

ForwardReturnedPcs == {"decode", "host_grad"} \cup BackwardPcs \cup {"done"}

\* The tolerance after the first sweep: delta0 * eps.
RescaledTol == Mul(deltas[1], eps0)

\* The forward pass stopped at its last sweep because of the tolerance.
StoppedByTolerance == fwdSweeps >= 2 /\ Lt(deltas[fwdSweeps], RescaledTol)

\* C2: on an instance that is not flagged invalid, mix_backward runs exactly
\* as many adjoint-mode kernel sweeps as mix_forward ran forward-mode
\* sweeps, when the forward pass converged and when it exhausted max_iter.
C2_BackwardSweepsEqualForward ==
  (BackwardReturned /\ ~invalid_flag) => bwdSweeps = fwdSweeps

\* C3: mix_forward runs at most max_iter sweeps; the first sweep's movement
\* delta0 replaces the tolerance by delta0 * eps and never stops the loop;
\* from the second sweep on the loop stops at the first sweep whose movement
\* is strictly below that tolerance, and runs all max_iter sweeps when there
\* is none; the recorded niter is in 0..max_iter.
C3_ForwardStopsOnRescaledTolerance ==
  /\ fwdSweeps <= max_iter
  /\ niter \in 0..max_iter
  /\ Len(deltas) >= 1 => eps = RescaledTol
  /\ \A s \in 2..(Len(deltas) - 1) : ~Lt(deltas[s], RescaledTol)
  /\ pc \in ForwardReturnedPcs =>
       /\ Len(deltas) = fwdSweeps
       /\ StoppedByTolerance \/ fwdSweeps = max_iter

\* The forward pass has stopped by the tolerance before max_iter, the first
\* sweep having moved.
C3_Witness ==
  /\ pc = "decode"
  /\ StoppedByTolerance
  /\ fwdSweeps < max_iter
  /\ deltas[1] # Zero

\* The ids perm[j] + 1 of the non-input variables, in the order of perm.
FreeOrder ==
  SelectSeq([j \in 1..(N - 1) |-> perm[j - 1] + 1], LAMBDA i : is_input[i] = 0)

\* C8: after mix_init the index holds the ids perm[j] + 1 of exactly the
\* non-input variables among 1..n-1, each once, in the order of perm, and
\* sentinel 0 entries after them, index[n-1] being one; every sweep ends at
\* a sentinel inside the index and has visited exactly these ids in this
\* order, in forward and in backward.
C8_IndexIsFreeOrderThenSentinels ==
  pc # "init" =>
    /\ \A j \in 0..(N - 1) :
          index[j] = (IF j < Len(FreeOrder) THEN FreeOrder[j + 1] ELSE 0)
    /\ index[N - 1] = 0
    /\ 0 \notin Range(FreeOrder)
    /\ Range(FreeOrder) = {i \in 1..(N - 1) : is_input[i] = 0}
    /\ Len(FreeOrder) = Cardinality(Range(FreeOrder))
    /\ sweepOrders \subseteq {FreeOrder}
    /\ pc \in {"fwd_kernel", "bwd_kernel"} =>
         (i_ \in 0..(N - 1) /\ visits = SubSeq(FreeOrder, 1, i_))

\* Forward and backward sweeps have run over two or more free variables that
\* perm does not list in increasing order, on an instance with an input
\* variable among 1..n-1 or with variable 0 not an input.
C8_Witness ==
  /\ BackwardReturned
  /\ fwdSweeps >= 1 /\ bwdSweeps >= 1
  /\ Len(FreeOrder) >= 2 /\ FreeOrder[1] > FreeOrder[2]
  /\ sweepOrders = {FreeOrder}

----------------------------------------------------------------------------
(* The launchers (specification SpecBatch): what each batch element reads  *)
(* and writes.  A pointer is a buffer with an offset; an access is a       *)
(* triple <<buffer, first, last>>; the values of the floats are left out,  *)
(* so the tolerance test of mix_forward and the two validity tests of      *)
(* mix_backward may go either way.                                         *)

Ptr(b, o) == [buf |-> b, off |-> o]

\* The pointer p + d.
At(p, d) == [buf |-> p.buf, off |-> p.off + d]

\* The locations p[0] .. p[len - 1].
Span(p, len) == {<<p.buf, p.off, p.off + len - 1>>}

\* Lines 29-39: saxpy(y, a, x, l) loads and stores whole vectors of 4.
saxpyReads(y, x, l) == Span(y, Chunked(l)) \cup Span(x, Chunked(l))
saxpyWrites(y, l) == Span(y, Chunked(l))

\* Lines 43-61.
sdotReads(x, y, l) == Span(x, Chunked(l)) \cup Span(y, Chunked(l))

\* Lines 67-80: sscal(x, a, l) reads and writes x[0..l-1].
sscalAccess(x, l) == Span(x, l)

\* Line 86.
szeroWrites(v, l) == Span(v, l)

\* The len values a pointer into the memory mem points to.
Slice(mem, p, len) == [j \in 0..(len - 1) |-> mem[p.off + j]]

\* The memory after the values vals have been stored from p on.
Store(mem, p, vals) ==
  [j \in DOMAIN mem |-> IF (j - p.off) \in DOMAIN vals THEN vals[j - p.off] ELSE mem[j]]

\* Lines 99-117: what mix_init reads.
InitReads(a, isin) ==
  Span(a.is_input, N) \cup Span(a.perm, N - 1)
  \cup UNION {IF isin[i] # 0
              THEN Span(At(a.V, i * K + 1), 1) \cup Span(At(a.z, i), 1)
              ELSE sdotReads(At(a.V, i * K), At(a.V, i * K), K)
                   \cup sscalAccess(At(a.V, i * K), K) : i \in Vars}

\* Lines 99-119: what mix_init writes.
InitWrites(a) ==
  Span(a.index, N) \cup UNION {Span(At(a.V, i * K), K) : i \in Vars}

\* Lines 133-177: what the update of variable i reads.
KernelReads(is_forward, a, i) ==
  LET Si == At(a.S, i * M)
      Vi == At(a.V, i * K)
      Pi == At(a.Vproj, i * K)
  IN  Span(At(a.Snrms, i), 1)
      \cup UNION {sdotReads(Si, At(a.W, kk * M), M) : kk \in 0..(K - 1)}
      \cup saxpyReads(a.g, Vi, K)
      \cup (IF is_forward
            THEN sdotReads(a.g, a.g, K) \cup sscalAccess(a.g, K)
            ELSE Span(At(a.gnrm, i), 1) \cup sdotReads(Pi, a.g, K)
                 \cup Span(At(a.dz, i), 1) \cup Span(Pi, 1)
                 \cup sscalAccess(a.g, K) \cup saxpyReads(a.g, Pi, K))
      \cup sscalAccess(a.g, K)
      \cup Span(a.g, K) \cup Span(Vi, K)
      \cup UNION {saxpyReads(At(a.W, kk * M), Si, M) : kk \in 0..(K - 1)}

\* Lines 133-177: what the update of variable i writes.
KernelWrites(is_forward, a, i) ==
  Span(a.g, K) \cup saxpyWrites(a.g, K) \cup sscalAccess(a.g, K)
  \cup Span(At(a.V, i * K), K)
  \cup UNION {saxpyWrites(At(a.W, kk * M), M) : kk \in 0..(K - 1)}
  \cup (IF is_forward THEN Span(At(a.gnrm, i), 1) ELSE {})

\* Line 132: a sweep reads the index up to its first sentinel.
SweepReads(is_forward, a, ids) ==
  Span(a.index, Len(ids) + 1)
  \cup UNION {KernelReads(is_forward, a, ids[j]) : j \in DOMAIN ids}

SweepWrites(is_forward, a, ids) ==
  UNION {KernelWrites(is_forward, a, ids[j]) : j \in DOMAIN ids}

Null == Ptr("NULL", 0)

\* Line 194: the arguments of the forward-mode call.
ForwardKernelArgs(f) ==
  [index |-> f.index, S |-> f.S, dz |-> Null, V |-> f.V, Vproj |-> Null,
   W |-> f.W, gnrm |-> f.gnrm, Snrms |-> f.Snrms, g |-> f.cache]

\* Line 235: the arguments of the adjoint-mode call.
BackwardKernelArgs(a) ==
  [index |-> a.index, S |-> a.S, dz |-> a.dz, V |-> a.U, Vproj |-> a.V,
   W |-> a.Phi, gnrm |-> a.gnrm, Snrms |-> a.Snrms, g |-> a.cache]

\* Lines 201-211.
DecodeReads(f, ids) ==
  Span(f.index, Len(ids) + 1) \cup UNION {Span(At(f.V, ids[j] * K), 1) : j \in DOMAIN ids}

DecodeWrites(f, ids) ==
  Span(f.niter, 1) \cup UNION {Span(At(f.z, ids[j]), 1) : j \in DOMAIN ids}

\* Lines 220-227.
Step1Reads(a, ids) ==
  Span(a.index, Len(ids) + 1)
  \cup UNION {Span(At(a.z, ids[j]), 1) \cup Span(At(a.dz, ids[j]), 1)
              \cup Span(At(a.gnrm, ids[j]), 1) : j \in DOMAIN ids}

Step1Writes(a, ids) == UNION {Span(At(a.dz, ids[j]), 1) : j \in DOMAIN ids}

\* Lines 239-242.
Step3Reads(a) == Span(a.U, N * K)

\* Lines 250-255.
Step4Reads(a) ==
  UNION {Span(At(a.U, i * K + kk), 1) \cup saxpyReads(At(a.dS, i * M), At(a.W, kk * M), M)
         \cup Span(At(a.V, i * K + kk), 1)
         \cup saxpyReads(At(a.dS, i * M), At(a.Phi, kk * M), M) :
           i \in Vars, kk \in 0..(K - 1)}

Step4Writes(a) == UNION {saxpyWrites(At(a.dS, i * M), M) : i \in Vars}

\* Lines 257-266.
Step5Reads(a, isin) ==
  UNION {Span(At(a.is_input, i), 1)
         \cup (IF isin[i] = 0 THEN {}
               ELSE sdotReads(At(a.S, i * M), At(a.Phi, 0 * M), M)
                    \cup sdotReads(At(a.S, i * M), At(a.Phi, 1 * M), M)
                    \cup Span(At(a.dz, i), 1) \cup Span(At(a.z, i), 1)
                    \cup Span(At(a.V, i * K + 1), 1)) : i \in Step5Vars}

Step5Writes(a) == UNION {Span(At(a.dz, i), 1) : i \in Step5Vars}

\* Lines 273-274: the arguments mix_init gets for batch element i.
InitArgs(i) ==
  [perm |-> Ptr("perm", 0), is_input |-> Ptr("is_input", i * N),
   index |-> Ptr("index", i * N), z |-> Ptr("z", i * N), V |-> Ptr("V", i * N * K)]

\* ForwardArgs with mix.cache in place of mix.cache + i * k.
ForwardArgs_SharedCache(i) ==
  [index |-> Ptr("index", i * N), niter |-> Ptr("niter", i), S |-> Ptr("S", 0),
   z |-> Ptr("z", i * N), V |-> Ptr("V", i * N * K), W |-> Ptr("W", i * M * K),
   gnrm |-> Ptr("gnrm", i * N), Snrms |-> Ptr("Snrms", 0), cache |-> Ptr("cache", 0)]

\* Lines 282-285: the arguments mix_forward gets for batch element i.
ForwardArgs(i) ==
  [index |-> Ptr("index", i * N), niter |-> Ptr("niter", i), S |-> Ptr("S", 0),
   z |-> Ptr("z", i * N), V |-> Ptr("V", i * N * K), W |-> Ptr("W", i * M * K),
   gnrm |-> Ptr("gnrm", i * N), Snrms |-> Ptr("Snrms", 0), cache |-> Ptr("cache", i * K)]

\* Lines 293-297: the arguments mix_backward gets for batch element i.
BackwardArgs(i) ==
  [is_input |-> Ptr("is_input", i * N), index |-> Ptr("index", i * N),
   niter |-> Ptr("niter", i), S |-> Ptr("S", 0), dS |-> Ptr("dS", i * N * M),
   z |-> Ptr("z", i * N), dz |-> Ptr("dz", i * N), V |-> Ptr("V", i * N * K),
   U |-> Ptr("U", i * N * K), W |-> Ptr("W", i * M * K), Phi |-> Ptr("Phi", i * M * K),
   gnrm |-> Ptr("gnrm", i * N), Snrms |-> Ptr("Snrms", 0), cache |-> Ptr("cache", i * K)]

SetMin(T) == CHOOSE x \in T : \A y \in T : x <= y
SetMax(T) == 0 - SetMin({0 - x : x \in T})

\* The span of buffer b that covers the span sp and the accesses acc.
Cover(sp, acc, b) ==
  LET mine == {x \in acc : x[1] = b}
      los == {x[2] : x \in mine} \cup (IF sp = NoSpan THEN {} ELSE {sp[1]})
      his == {x[3] : x \in mine} \cup (IF sp = NoSpan THEN {} ELSE {sp[2]})
  IN  IF los = {} THEN NoSpan ELSE <<SetMin(los), SetMax(his)>>

\* The footprint fp after the accesses acc.
Record(fp, acc) == [b \in BufNames |-> Cover(fp[b], acc, b)]

\* The input flags of one batch element in the model.
BatchInputs == {[i \in Vars |-> IF i \in T THEN 1 ELSE 0] : T \in {{0}, {0, 1}}}

\* The max_iter the host passes to the forward launcher in the model.
BatchMaxIters == {1, 2}

\* The instance variables but perm and max_iter are not used.
BatchInit ==
  /\ perm \in SomePerms
  /\ max_iter \in BatchMaxIters
  /\ \E isin \in [Elems -> BatchInputs] :
        mem_is_input = [j \in 0..(Batch * N - 1) |-> isin[j \div N][j % N]]
  /\ mem_index = Buf(Batch * N, N)
  /\ mem_niter = Buf(Batch, 0)
  /\ b_pc = [e \in Elems |-> "init"]
  /\ b_iter = [e \in Elems |-> 0]
  /\ rd = [e \in Elems |-> NoAccess]
  /\ wr = [e \in Elems |-> NoAccess]
  /\ is_input = Buf(N, 0)
  /\ index = Buf(N, N)
  /\ z = Buf(N, Zero)
  /\ V = Buf(N * K, Zero)
  /\ S = Buf(N * M, Zero)
  /\ Snrms = Buf(N, Zero)
  /\ W = Buf(K * M, Zero)
  /\ gnrm = Buf(N, Zero)
  /\ cache = Buf(K, Zero)
  /\ niter = 0
  /\ dz = Buf(N, Zero)
  /\ dS = Buf(N * M, Zero)
  /\ U = Buf(N * K, Zero)
  /\ Phi = Buf(K * M, Zero)
  /\ eps \in EpsChoices
  /\ prox_lam = Zero
  /\ pc = "batch"
  /\ iter = 0
  /\ i_ = 0
  /\ delta = Zero
  /\ invalid_flag = FALSE
  /\ eps0 = eps
  /\ deltas = <<>>
  /\ fwdSweeps = 0
  /\ bwdSweeps = 0
  /\ visits = <<>>
  /\ sweepOrders = {}
  /\ dz_in = dz
  /\ dS_in = dS

\* Element e has made the accesses r and w and is at position p.
Accessed(e, r, w, p) ==
  /\ rd' = [rd EXCEPT ![e] = Record(@, r)]
  /\ wr' = [wr EXCEPT ![e] = Record(@, w)]
  /\ b_pc' = [b_pc EXCEPT ![e] = p]

\* The ids the index of a call lists before its first sentinel.
IndexIds(idx) == Visited(Slice(mem_index, idx, N))

\* Lines 270-275: one iteration of the parallel loop, mix_init of element e.
BatchMixInit(e) ==
  /\ b_pc[e] = "init"
  /\ LET a == InitArgs(e)
         isin == Slice(mem_is_input, a.is_input, N)
     IN  /\ mem_index' = Store(mem_index, a.index,
                               BuildIndex(perm, isin, Slice(mem_index, a.index, N)))
         /\ Accessed(e, InitReads(a, isin), InitWrites(a), "init_done")
  /\ UNCHANGED <<b_iter, mem_is_input, mem_niter, inst_vars>>

\* The parallel loop of mix_init_launcher_cpu has ended; the host calls
\* mix_forward_launcher_cpu.
LaunchForward ==
  /\ \A e \in Elems : b_pc[e] = "init_done"
  /\ b_pc' = [e \in Elems |-> "fwd_loop"]
  /\ b_iter' = [e \in Elems |-> 0]
  /\ UNCHANGED <<mem_is_input, mem_index, mem_niter, rd, wr, inst_vars>>

\* Lines 192-198 for element e: one sweep, and the break or iter++.
BatchForwardSweep(e) ==
  /\ b_pc[e] = "fwd_loop"
  /\ b_iter[e] < max_iter
  /\ LET a == ForwardKernelArgs(ForwardArgs(e))
         ids == IndexIds(a.index)
     IN  \E brk \in (IF b_iter[e] = 0 THEN {FALSE} ELSE BOOLEAN) :
            /\ Accessed(e, SweepReads(TRUE, a, ids), SweepWrites(TRUE, a, ids),
                        IF brk THEN "fwd_exit" ELSE "fwd_loop")
            /\ b_iter' = [b_iter EXCEPT ![e] = IF brk THEN @ ELSE @ + 1]
  /\ UNCHANGED <<mem_is_input, mem_index, mem_niter, inst_vars>>

\* Lines 201-211 for element e.
BatchForwardExit(e) ==
  /\ \/ b_pc[e] = "fwd_exit"
     \/ b_pc[e] = "fwd_loop" /\ b_iter[e] >= max_iter
  /\ LET f == ForwardArgs(e)
         ids == IndexIds(f.index)
     IN  /\ mem_niter' = Store(mem_niter, f.niter, [j \in {0} |-> b_iter[e]])
         /\ Accessed(e, DecodeReads(f, ids), DecodeWrites(f, ids), "fwd_done")
  /\ UNCHANGED <<b_iter, mem_is_input, mem_index, inst_vars>>

\* The host calls mix_backward_launcher_cpu.
LaunchBackward ==
  /\ \A e \in Elems : b_pc[e] = "fwd_done"
  /\ b_pc' = [e \in Elems |-> "bwd_step1"]
  /\ UNCHANGED <<b_iter, mem_is_input, mem_index, mem_niter, rd, wr, inst_vars>>

\* Lines 220-231 for element e.
BatchBackwardStep1(e) ==
  /\ b_pc[e] = "bwd_step1"
  /\ LET a == BackwardArgs(e)
         ids == IndexIds(a.index)
     IN  \E flag \in (IF ids = <<>> THEN {FALSE} ELSE BOOLEAN) :
            Accessed(e, Step1Reads(a, ids),
                     Step1Writes(a, ids) \cup (IF flag THEN szeroWrites(a.dz, N) ELSE {}),
                     IF flag THEN "bwd_done" ELSE "bwd_loop")
  /\ b_iter' = [b_iter EXCEPT ![e] = 0]
  /\ UNCHANGED <<mem_is_input, mem_index, mem_niter, inst_vars>>

\* Lines 234-236 for element e: the test of *niter and one adjoint sweep.
BatchBackwardSweep(e) ==
  /\ b_pc[e] = "bwd_loop"
  /\ LET a == BackwardArgs(e)
         ka == BackwardKernelArgs(a)
         ids == IndexIds(a.index)
     IN  /\ b_iter[e] < Slice(mem_niter, a.niter, 1)[0]
         /\ Accessed(e, Span(a.niter, 1) \cup SweepReads(FALSE, ka, ids),
                     SweepWrites(FALSE, ka, ids), "bwd_loop")
  /\ b_iter' = [b_iter EXCEPT ![e] = @ + 1]
  /\ UNCHANGED <<mem_is_input, mem_index, mem_niter, inst_vars>>

\* Lines 234-266 for element e: the loop ends, then steps 3 to 5.
BatchBackwardFinish(e) ==
  /\ b_pc[e] = "bwd_loop"
  /\ LET a == BackwardArgs(e)
         isin == Slice(mem_is_input, a.is_input, N)
     IN  /\ b_iter[e] >= Slice(mem_niter, a.niter, 1)[0]
         /\ \E flag \in BOOLEAN :
               Accessed(e,
                        Span(a.niter, 1) \cup Step3Reads(a)
                          \cup (IF flag THEN {} ELSE Step4Reads(a) \cup Step5Reads(a, isin)),
                        IF flag THEN szeroWrites(a.dz, N)
                        ELSE Step4Writes(a) \cup Step5Writes(a),
                        "bwd_done")
  /\ UNCHANGED <<b_iter, mem_is_input, mem_index, mem_niter, inst_vars>>

NextBatch ==
  \/ \E e \in Elems : BatchMixInit(e)
  \/ LaunchForward
  \/ \E e \in Elems : BatchForwardSweep(e)
  \/ \E e \in Elems : BatchForwardExit(e)
  \/ LaunchBackward
  \/ \E e \in Elems : BatchBackwardStep1(e)
  \/ \E e \in Elems : BatchBackwardSweep(e)
  \/ \E e \in Elems : BatchBackwardFinish(e)

SpecBatch == BatchInit /\ [][NextBatch]_vars

----------------------------------------------------------------------------
(* Properties of the launchers (specification SpecBatch).                  *)

\* The buffers every batch element gets the same pointer to.
SharedBufs == {"perm", "S", "Snrms"}

Disjoint(sp, sq) == sp = NoSpan \/ sq = NoSpan \/ sp[2] < sq[1] \/ sq[2] < sp[1]
Inside(sp, sq) == sp = NoSpan \/ (sq[1] <= sp[1] /\ sp[2] <= sq[2])

\* The pointers the three launchers pass for batch element i.
ElementArgs(i) == InitArgs(i) @@ ForwardArgs(i) @@ BackwardArgs(i)

\* The locations from the pointer a on and before the pointer c.
Between(a, c) == <<a.off, c.off - 1>>

\* The accesses of footprint fp are in the slices that start at the pointers
\* of element e and end before those of element e + 1.
InOwnSlices(fp, e) ==
  LET a == ElementArgs(e)
      c == ElementArgs(e + 1)
  IN  \A b \in BufNames \ (SharedBufs \cup {"NULL"}) : Inside(fp[b], Between(a[b], c[b]))

\* C4: with k and m multiples of 4, in every interleaving of the batch
\* elements that the three launchers run, no location written by one
\* element is read or written by another; only perm, S and Snrms are
\* accessed by more than one element and they are never written; every
\* element stays inside its own slices, so that what it computes is what it
\* computes alone: its index is the one mix_init builds from perm and its
\* own is_input.
C4_BatchElementsDoNotInterfere ==
  /\ \A e \in Elems : \A b \in SharedBufs \cup {"NULL"} : wr[e][b] = NoSpan
  /\ \A e \in Elems : rd[e]["NULL"] = NoSpan
  /\ \A e \in Elems : \A f \in Elems \ {e} : \A b \in BufNames :
        /\ Disjoint(wr[e][b], rd[f][b])
        /\ Disjoint(wr[e][b], wr[f][b])
        /\ b \notin SharedBufs => Disjoint(rd[e][b], rd[f][b])
  /\ \A e \in Elems : InOwnSlices(rd[e], e) /\ InOwnSlices(wr[e], e)
  /\ \A e \in Elems :
        b_pc[e] # "init" =>
           Slice(mem_index, Ptr("index", e * N), N)
             = BuildIndex(perm, Slice(mem_is_input, Ptr("is_input", e * N), N), Buf(N, N))

\* All elements have returned from the backward launcher, two of them with
\* different free variables, one after adjoint sweeps and steps 4 and 5 and
\* one after an invalid return.
C4_Witness ==
  /\ \A e \in Elems : b_pc[e] = "bwd_done"
  /\ \E e, f \in Elems :
        /\ e # f
        /\ Slice(mem_index, Ptr("index", e * N), N) # Slice(mem_index, Ptr("index", f * N), N)
        /\ wr[e]["dS"] # NoSpan /\ wr[e]["U"] # NoSpan
        /\ wr[f]["dS"] = NoSpan
        /\ wr[f]["cache"] # NoSpan

====
